---------------------------- MODULE Spec2Model ----------------------------
(***************************************************************************)
(* A model of App/App.py, the Streamlit resume analyzer: the resume scorer *)
(* (calculate_resume_score), the experience-level detector and the field   *)
(* classifier (analyze_resume), the course recommender and the user page   *)
(* that stores one row per analysis.                                       *)
(*                                                                         *)
(* Python strings are TLA+ strings; a Python value that may also be None,  *)
(* an int or a bytes object is a record [type, val].                       *)
(***************************************************************************)
EXTENDS Integers, Sequences, FiniteSets, TLC

(***************************************************************************)
(* Bounds of the model.                                                    *)
(***************************************************************************)
\* Longest skill list handed to analyze_resume.
MaxSkills == 2
\* Rows the user_data table holds before the model stops inserting.
MaxRecords == 2

(***************************************************************************)
(* Program constants.                                                      *)
(***************************************************************************)
SectionPoints == 15
LengthThreshold == 500
LengthBonus == 10
KeywordBonus == 10
RandLow == 0
RandHigh == 15
MaxScore == 100
SliderMin == 1
SliderMax == 10
SliderDefault == 5

VARIABLES
    resume_text,    \* the text handed to the scorer / analyzer
    resume_data,    \* the parsed resume: [skills |-> list of Python values]
    rand,           \* the last value random.randint(0, 15) returned
    score,          \* the outcome of the last calculate_resume_score call
    course_lists,   \* the module's lists DS_COURSE .. UIUX_COURSE, by name
    no_of_reco,     \* the value of the 'Number of Recommendations' slider
    analysis,       \* the outcome of the last analyze_resume call on the resume
    first,          \* the skill list and the field of the first call that returned
    PYRESPRARSER_AVAILABLE, \* whether pyresparser could be imported
    client,         \* the Supabase client of get_supabase_client, or "None"
    choice,         \* the page picked in the sidebar
    act_name,       \* the 'Full Name' field
    act_mail,       \* the 'Email' field
    act_mob,        \* the 'Mobile' field
    pdf_file,       \* the uploaded PDF, or NoFile
    admin_logged_in, \* st.session_state.admin_logged_in
    user_data,      \* the rows of the user_data table, oldest first
    login_form,     \* what the admin_login form submitted to the last run, or NoSubmit
    view            \* what the last run of the script left on the page

(***************************************************************************)
(* Python values and call outcomes.                                        *)
(***************************************************************************)
PyStr(s) == [type |-> "str", val |-> s]
PyNone == [type |-> "NoneType", val |-> "None"]
PyInt(s) == [type |-> "int", val |-> s]
PyBytes(s) == [type |-> "bytes", val |-> s]

NotCalled == [exc |-> "not called", value |-> -1]
Returned(v) == [exc |-> "", value |-> v]
Raised(e) == [exc |-> e, value |-> -1]

(***************************************************************************)
(* str.upper, str.lower and the `in` operator on strings.                  *)
(***************************************************************************)
ascii_uppercase == "ABCDEFGHIJKLMNOPQRSTUVWXYZ"
ascii_lowercase == "abcdefghijklmnopqrstuvwxyz"

CharAt(s, i) == SubSeq(s, i, i)

\* The two case maps, letter by letter; every other character maps to itself.
to_upper ==
    [c \in {CharAt(ascii_lowercase, i) : i \in 1..Len(ascii_lowercase)} |->
        CharAt(ascii_uppercase, CHOOSE i \in 1..Len(ascii_lowercase) : CharAt(ascii_lowercase, i) = c)]

to_lower ==
    [c \in {CharAt(ascii_uppercase, i) : i \in 1..Len(ascii_uppercase)} |->
        CharAt(ascii_lowercase, CHOOSE i \in 1..Len(ascii_uppercase) : CharAt(ascii_uppercase, i) = c)]

upper_char(c) == IF c \in DOMAIN to_upper THEN to_upper[c] ELSE c

lower_char(c) == IF c \in DOMAIN to_lower THEN to_lower[c] ELSE c

RECURSIVE upper(_)
upper(s) ==
    IF Len(s) = 0 THEN ""
    ELSE IF Len(s) = 1 THEN upper_char(s)
    ELSE LET h == Len(s) \div 2
         IN upper(SubSeq(s, 1, h)) \o upper(SubSeq(s, h + 1, Len(s)))

RECURSIVE lower(_)
lower(s) ==
    IF Len(s) = 0 THEN ""
    ELSE IF Len(s) = 1 THEN lower_char(s)
    ELSE LET h == Len(s) \div 2
         IN lower(SubSeq(s, 1, h)) \o lower(SubSeq(s, h + 1, Len(s)))

\* Python's `kw in s` for two strings.
Contains(s, kw) ==
    \E i \in 1..(Len(s) - Len(kw) + 1) : SubSeq(s, i, i + Len(kw) - 1) = kw

\* any(kw in s for kw in keywords)
AnyIn(keywords, s) == \E k \in 1..Len(keywords) : Contains(s, keywords[k])

Min(a, b) == IF a < b THEN a ELSE b

(***************************************************************************)
(* calculate_resume_score                                                  *)
(***************************************************************************)
sections == <<
    [name |-> "objective",      keywords |-> <<"OBJECTIVE", "SUMMARY", "PROFILE">>],
    [name |-> "education",      keywords |-> <<"EDUCATION", "DEGREE", "BACHELOR", "MASTER">>],
    [name |-> "experience",     keywords |-> <<"EXPERIENCE", "WORK EXPERIENCE", "PROFESSIONAL EXPERIENCE">>],
    [name |-> "skills",         keywords |-> <<"SKILLS", "TECHNICAL SKILLS", "COMPETENCIES">>],
    [name |-> "projects",       keywords |-> <<"PROJECTS", "PROJECT EXPERIENCE">>],
    [name |-> "certifications", keywords |-> <<"CERTIFICATIONS", "CERTIFICATE">>] >>

language_keywords == <<"python", "java", "react", "sql">>

\* The loop over sections.items(), from section i on, with the score so far.
RECURSIVE section_loop(_, _, _)
section_loop(text_upper, i, acc) ==
    IF i > Len(sections) THEN acc
    ELSE section_loop(text_upper, i + 1,
                      IF AnyIn(sections[i].keywords, text_upper)
                      THEN acc + SectionPoints ELSE acc)

section_score(text_upper) == section_loop(text_upper, 1, 0)

length_bonus_inclusive(text) == IF Len(text) >= LengthThreshold THEN LengthBonus ELSE 0

length_bonus(text) == IF Len(text) > LengthThreshold THEN LengthBonus ELSE 0

keyword_bonus_no_lower(text_upper) ==
    IF AnyIn(language_keywords, text_upper) THEN KeywordBonus ELSE 0

keyword_bonus(text_upper) ==
    IF AnyIn(language_keywords, lower(text_upper)) THEN KeywordBonus ELSE 0

\* The score before the random term and the clamp.
base_score(text) ==
    LET text_upper == upper(text)
    IN section_score(text_upper) + length_bonus(text) + keyword_bonus(text_upper)

randint(a, b) == a..b

clamp_missing(total) == total

clamp(total) == Min(total, MaxScore)

\* calculate_resume_score up to the draw: the .upper() of line 394 raises on a
\* text that is no string, and the rest adds up the base.
score_before_random(text) ==
    IF text.type # "str"
    THEN Raised("AttributeError")
    ELSE Returned(base_score(text.val))

\* The return statement, given the score so far and the value randint returns.
score_return(before, r) ==
    IF before.exc # "" THEN before ELSE Returned(clamp(before.value + r))

\* calculate_resume_score(resume_text), r being what random.randint returns.
calculate_resume_score(text, r) == score_return(score_before_random(text), r)

(***************************************************************************)
(* Resume texts of the scorer's checks: any selection of the fragments,    *)
(* joined by single blanks, as is or filled up with "x" to a length at the *)
(* threshold or one past it; and the example text of the specification.    *)
(***************************************************************************)
Fragments == <<"Profile summary", "EDUCATION", "Work Experience", "skills",
               "Projects", "certificate", "JavaScript">>

ExampleText == "OBJECTIVE EDUCATION EXPERIENCE SKILLS"

RECURSIVE JoinFrom(_, _)
JoinFrom(chosen, i) ==
    IF i > Len(Fragments) THEN ""
    ELSE LET rest == JoinFrom(chosen, i + 1)
         IN IF i \notin chosen THEN rest
            ELSE IF rest = "" THEN Fragments[i]
            ELSE Fragments[i] \o " " \o rest

RECURSIVE Filler(_)
Filler(n) ==
    IF n <= 0 THEN ""
    ELSE IF n = 1 THEN "x"
    ELSE Filler(n \div 2) \o Filler(n - (n \div 2))

FillTo(s, n) == s \o Filler(n - Len(s))

FillTargets == {0, LengthThreshold, LengthThreshold + 1}

ScoreTexts ==
    { FillTo(JoinFrom(chosen, 1), n) : chosen \in SUBSET (1..Len(Fragments)), n \in FillTargets }
    \cup {ExampleText}

(***************************************************************************)
(* The course lists (lines 39-61) and course_recommender.                  *)
(***************************************************************************)
CourseLists == [
    DS_COURSE |-> <<
        <<"Machine Learning A-Z", "https://coursera.org/ml">>,
        <<"Deep Learning Specialization", "https://coursera.org/deeplearning">>,
        <<"Python for Data Science", "https://udemy.com/python-datascience">> >>,
    WEB_COURSE |-> <<
        <<"The Web Developer Bootcamp", "https://udemy.com/web-developer">>,
        <<"React - The Complete Guide", "https://udemy.com/react-complete">>,
        <<"Node.js Complete Course", "https://udemy.com/nodejs">> >>,
    ANDROID_COURSE |-> <<
        <<"Android Development", "https://udemy.com/android-development">>,
        <<"Kotlin for Android", "https://udemy.com/kotlin-android">>,
        <<"Flutter Complete Course", "https://udemy.com/flutter">> >>,
    IOS_COURSE |-> <<
        <<"iOS & Swift - The Complete Course", "https://udemy.com/ios-swift">>,
        <<"SwiftUI Masterclass", "https://udemy.com/swiftui">> >>,
    UIUX_COURSE |-> <<
        <<"UI/UX Design Complete", "https://udemy.com/uiux-design">>,
        <<"Figma UI Design", "https://udemy.com/figma-design">> >> ]

DS_COURSE == course_lists.DS_COURSE
WEB_COURSE == course_lists.WEB_COURSE
ANDROID_COURSE == course_lists.ANDROID_COURSE
IOS_COURSE == course_lists.IOS_COURSE
UIUX_COURSE == course_lists.UIUX_COURSE

\* What random.shuffle(l) may leave in l: any arrangement of its elements.
shuffle(l) ==
    { [i \in 1..Len(l) |-> l[p[i]]] :
        p \in { q \in [1..Len(l) -> 1..Len(l)] : \A i, j \in 1..Len(l) : q[i] = q[j] => i = j } }

\* course_list[:no_of_reco]
Prefix(l, n) == SubSeq(l, 1, Min(n, Len(l)))

\* course_recommender(course_list), course_list being the module list `name`:
\* random.shuffle works on the list object it is handed, so `shuffled`, what
\* the shuffle leaves, ends up in the module's list. Yields the lists
\* afterwards and rec_course, the names shown.
course_recommender(lists, name, n, shuffled) ==
    LET after == [lists EXCEPT ![name] = shuffled]
        top == Prefix(after[name], n)
    IN [lists |-> after,
        rec_course |-> [i \in 1..Len(top) |-> top[i][1]]]

(***************************************************************************)
(* analyze_resume                                                          *)
(***************************************************************************)
internship_words == <<"INTERNSHIP", "INTERNSHIPS">>
experience_words == <<"EXPERIENCE", "WORK EXPERIENCE">>

experience_level_experience_first(text_upper) ==
    IF AnyIn(experience_words, text_upper) THEN "Experienced"
    ELSE IF AnyIn(internship_words, text_upper) THEN "Intermediate"
    ELSE "Fresher"

\* Lines 308-316: cand_level.
experience_level(text_upper) ==
    IF AnyIn(internship_words, text_upper) THEN "Intermediate"
    ELSE IF AnyIn(experience_words, text_upper) THEN "Experienced"
    ELSE "Fresher"

ds_keywords == <<"tensorflow", "keras", "pytorch", "machine learning", "deep learning", "flask">>
web_keywords == <<"react", "django", "node", "javascript", "php", "angular">>
android_keywords == <<"android", "kotlin", "flutter">>
ios_keywords == <<"ios", "swift", "xcode">>
uiux_keywords == <<"figma", "adobe xd", "ux", "ui", "prototyping">>

\* What the loop leaves in reco_field, recommended_skills and rec_course (the
\* latter the name of the module list the variable is bound to).
Reco(field, skills, course) ==
    [exc |-> "", reco_field |-> field, recommended_skills |-> skills, rec_course |-> course]

\* The defaults taken from the first branch of the chain.
reco_default_data_science ==
    Reco("Data Science", <<"TensorFlow", "PyTorch", "Scikit-learn", "Pandas", "Data Visualization">>, "DS_COURSE")

\* Lines 328-330.
reco_default == Reco("General", <<>>, "DS_COURSE")

\* Line 332: [s.lower() for s in skills]. An entry without a lower method
\* raises; bytes has one.
skills_lower(skills) ==
    IF \E i \in 1..Len(skills) : skills[i].type \notin {"str", "bytes"}
    THEN Raised("AttributeError")
    ELSE Returned([i \in 1..Len(skills) |-> [type |-> skills[i].type, val |-> lower(skills[i].val)]])

\* The if/elif chain of lines 335-359 on one lower-cased skill: the branch
\* taken, or "none".
match_skill_uiux_first(skill) ==
    IF AnyIn(uiux_keywords, skill) THEN "uiux"
    ELSE IF AnyIn(ds_keywords, skill) THEN "ds"
    ELSE IF AnyIn(web_keywords, skill) THEN "web"
    ELSE IF AnyIn(android_keywords, skill) THEN "android"
    ELSE IF AnyIn(ios_keywords, skill) THEN "ios"
    ELSE "none"

match_skill(skill) ==
    IF AnyIn(ds_keywords, skill) THEN "ds"
    ELSE IF AnyIn(web_keywords, skill) THEN "web"
    ELSE IF AnyIn(android_keywords, skill) THEN "android"
    ELSE IF AnyIn(ios_keywords, skill) THEN "ios"
    ELSE IF AnyIn(uiux_keywords, skill) THEN "uiux"
    ELSE "none"

\* The assignments of the branch taken, the iOS branch binding rec_course to
\* the Android list.
branch_ios_android_course(b) ==
    CASE b = "ds" -> Reco("Data Science",
                          <<"TensorFlow", "PyTorch", "Scikit-learn", "Pandas", "Data Visualization">>,
                          "DS_COURSE")
      [] b = "web" -> Reco("Web Development",
                           <<"React", "Node.js", "Django", "JavaScript", "REST APIs">>,
                           "WEB_COURSE")
      [] b = "android" -> Reco("Android Development",
                               <<"Kotlin", "Android Studio", "Flutter", "Java">>,
                               "ANDROID_COURSE")
      [] b = "ios" -> Reco("iOS Development",
                           <<"Swift", "Xcode", "SwiftUI", "UIKit">>,
                           "ANDROID_COURSE")
      [] b = "uiux" -> Reco("UI/UX Design",
                            <<"Figma", "Adobe XD", "Prototyping", "User Research">>,
                            "UIUX_COURSE")

\* The assignments of the branch taken.
branch(b) ==
    CASE b = "ds" -> Reco("Data Science",
                          <<"TensorFlow", "PyTorch", "Scikit-learn", "Pandas", "Data Visualization">>,
                          "DS_COURSE")
      [] b = "web" -> Reco("Web Development",
                           <<"React", "Node.js", "Django", "JavaScript", "REST APIs">>,
                           "WEB_COURSE")
      [] b = "android" -> Reco("Android Development",
                               <<"Kotlin", "Android Studio", "Flutter", "Java">>,
                               "ANDROID_COURSE")
      [] b = "ios" -> Reco("iOS Development",
                           <<"Swift", "Xcode", "SwiftUI", "UIKit">>,
                           "IOS_COURSE")
      [] b = "uiux" -> Reco("UI/UX Design",
                            <<"Figma", "Adobe XD", "Prototyping", "User Research">>,
                            "UIUX_COURSE")

\* The scan with the keyword sets outside and the skills inside: the first
\* set, in the order of the chain, that any skill from i on matches.
skill_loop_sets_outer(lowered, i, reco) ==
    LET rest == i..Len(lowered)
        hit(keywords) == \E j \in rest : AnyIn(keywords, lowered[j].val)
    IN IF \E j \in rest : lowered[j].type = "bytes" THEN Raised("TypeError")
       ELSE IF hit(ds_keywords) THEN branch("ds")
       ELSE IF hit(web_keywords) THEN branch("web")
       ELSE IF hit(android_keywords) THEN branch("android")
       ELSE IF hit(ios_keywords) THEN branch("ios")
       ELSE IF hit(uiux_keywords) THEN branch("uiux")
       ELSE reco

\* The loop of lines 334-359 from skill i on, `reco` being what the variables
\* hold so far. `kw in skill` raises TypeError on a bytes skill.
RECURSIVE skill_loop(_, _, _)
skill_loop(lowered, i, reco) ==
    IF i > Len(lowered) THEN reco
    ELSE IF lowered[i].type = "bytes" THEN Raised("TypeError")
    ELSE LET b == match_skill(lowered[i].val)
         IN IF b # "none" THEN branch(b)
            ELSE skill_loop(lowered, i + 1, reco)

\* The classifier starting from what the call before left in reco_field,
\* recommended_skills and rec_course.
classify_stale(data) ==
    LET lowered == skills_lower(data.skills)
    IN IF lowered.exc # "" THEN lowered
       ELSE skill_loop(lowered.value, 1,
                       IF analysis.exc = ""
                       THEN Reco(analysis.reco_field, analysis.recommended_skills, analysis.rec_course)
                       ELSE reco_default)

\* Lines 321-359: the field classifier.
classify(data) ==
    LET lowered == skills_lower(data.skills)
    IN IF lowered.exc # "" THEN lowered
       ELSE skill_loop(lowered.value, 1, reco_default)

\* The outcome of a call analyze_resume({'skills': skills}, text): exc names
\* the exception raised ("" when the call returned), the next five fields are
\* the returned dictionary (rec_course being the module list the entry is
\* bound to, and `courses` what that list holds at the return), and the
\* shown_ fields are what the call made the page show.
NoAnalysis ==
    [exc |-> "not called", skills |-> <<>>, text |-> PyNone,
     cand_level |-> "", reco_field |-> "", recommended_skills |-> <<>>,
     rec_course |-> "", courses |-> <<>>, resume_score |-> -1,
     shown_level |-> "", shown_field |-> "", shown_courses |-> <<>>, shown_score |-> -1]

\* analyze_resume(resume_data, resume_text) up to the two random choices:
\* lines 307-361, and calculate_resume_score up to its draw (resume_score
\* holds that score until the draw is added).
analyze_before_random(data, text) ==
    LET call == [NoAnalysis EXCEPT !.skills = data.skills, !.text = text]
    IN IF text.type # "str"
       THEN [call EXCEPT !.exc = "AttributeError"]
       ELSE LET cand_level == experience_level(upper(text.val))
                reco == classify(data)
            IN IF reco.exc # ""
               THEN [call EXCEPT !.exc = reco.exc, !.shown_level = cand_level]
               ELSE [call EXCEPT
                       !.exc = "",
                       !.cand_level = cand_level,
                       !.reco_field = reco.reco_field,
                       !.recommended_skills = reco.recommended_skills,
                       !.rec_course = reco.rec_course,
                       !.resume_score = score_before_random(text).value,
                       !.shown_level = cand_level,
                       !.shown_field = reco.reco_field]

\* The rest of analyze_resume: course_recommender (line 369) with what the
\* shuffle leaves, then the score (lines 373-380) with the value r of the
\* draw. Yields the call's outcome and the module lists afterwards.
analyze_after_random(before, lists, n, shuffled, r) ==
    IF before.exc # ""
    THEN [result |-> before, lists |-> lists]
    ELSE LET reco == course_recommender(lists, before.rec_course, n, shuffled)
             total == score_return(Returned(before.resume_score), r).value
         IN [result |-> [before EXCEPT
                            !.courses = reco.lists[before.rec_course],
                            !.resume_score = total,
                            !.shown_courses = reco.rec_course,
                            !.shown_score = total],
             lists |-> reco.lists]

\* What is kept of the first call that returned.
NoFirst == [called |-> FALSE, skills |-> <<>>, reco_field |-> ""]
FirstOf(result) == [called |-> TRUE, skills |-> result.skills, reco_field |-> result.reco_field]

(***************************************************************************)
(* Inputs of the analyzer's checks.                                        *)
(***************************************************************************)
SkillPool == {"TensorFlow", "React", "Flask Django", "Kotlin", "SwiftUI", "Figma", "excel"}

SkillLists ==
    UNION { [1..n -> {PyStr(x) : x \in SkillPool}] : n \in 0..MaxSkills }

\* Skill lists with an entry that is no string.
MalformedLists ==
    { <<PyInt("5")>>, <<PyNone>>, <<PyStr("React"), PyInt("5")>>,
      <<PyBytes("x")>>, <<PyStr("excel"), PyBytes("x")>> }

AnalyzeTexts ==
    { "", "Fresh graduate", "Internship and Work Experience", "WORK EXPERIENCE",
      "two internships", "Experienced intern" }

DefaultSkills == <<PyStr("React")>>
DefaultText == PyStr("Internship and Work Experience")

\* The resumes analysed: every skill list with one text, and every text with
\* one skill list.
Resumes ==
    { [skills |-> l, text |-> DefaultText] : l \in SkillLists \cup MalformedLists }
    \cup { [skills |-> DefaultSkills, text |-> t] : t \in {PyStr(x) : x \in AnalyzeTexts} \cup {PyNone} }

\* Another resume, analysed in between.
OtherResumes == { [skills |-> <<PyStr("Xcode")>>, text |-> PyStr("WORK EXPERIENCE")] }

\* The draws tried where the score is not what is checked: the two ends of
\* randint's range.
EndDraws == {RandLow, RandHigh}

session_vars == <<PYRESPRARSER_AVAILABLE, client, choice, act_name, act_mail, act_mob,
                  pdf_file, admin_logged_in, user_data, login_form, view>>
vars == <<resume_text, resume_data, rand, score, course_lists, no_of_reco, analysis, first,
          PYRESPRARSER_AVAILABLE, client, choice, act_name, act_mail, act_mob,
          pdf_file, admin_logged_in, user_data, login_form, view>>

\* The session as the script finds it on its first run.
NoFile == [name |-> "", skills |-> <<>>, text |-> "", no_of_pages |-> 0]

\* No press of the form's Login button in the run (login_btn is False).
NoSubmit == [username |-> "", password |-> "", login_btn |-> FALSE]
Submit(username, password) == [username |-> username, password |-> password, login_btn |-> TRUE]

SessionStart ==
    /\ choice = "User"
    /\ act_name = ""
    /\ act_mail = ""
    /\ act_mob = ""
    /\ pdf_file = NoFile
    /\ admin_logged_in = FALSE
    /\ user_data = <<>>
    /\ login_form = NoSubmit
    /\ view = "upload"

(***************************************************************************)
(* The scorer on its own: every text, every draw.                          *)
(***************************************************************************)
InitScore ==
    /\ resume_text \in {PyStr(t) : t \in ScoreTexts} \cup {PyNone}
    /\ resume_data = [skills |-> <<>>]
    /\ rand = RandLow
    /\ score = NotCalled
    /\ course_lists = CourseLists
    /\ no_of_reco = SliderDefault
    /\ analysis = NoAnalysis
    /\ first = NoFirst
    /\ PYRESPRARSER_AVAILABLE = TRUE
    /\ client = "None"
    /\ SessionStart

CalculateResumeScore ==
    \E before \in {score_before_random(resume_text)} :
      \E r \in randint(RandLow, RandHigh) :
        /\ rand' = r
        /\ score' = score_return(before, r)
        /\ UNCHANGED <<resume_text, resume_data, course_lists, no_of_reco, analysis, first>>
        /\ UNCHANGED session_vars

NextScore == CalculateResumeScore

SpecScore == InitScore /\ [][NextScore]_vars

(***************************************************************************)
(* analyze_resume called again and again in one process, on the resume     *)
(* under analysis or on another one.                                       *)
(***************************************************************************)
InitAnalyze ==
    /\ \E resume \in Resumes :
        /\ resume_data = [skills |-> resume.skills]
        /\ resume_text = resume.text
    /\ rand = RandLow
    /\ score = NotCalled
    /\ course_lists = CourseLists
    /\ no_of_reco = SliderDefault
    /\ analysis = NoAnalysis
    /\ first = NoFirst
    /\ PYRESPRARSER_AVAILABLE = TRUE
    /\ client = "None"
    /\ SessionStart

AnalyzeResume ==
    \E resume \in {[skills |-> resume_data.skills, text |-> resume_text]} \cup OtherResumes :
      \E before \in {analyze_before_random([skills |-> resume.skills], resume.text)} :
        \E r \in EndDraws :
          \E shuffled \in (IF before.exc = "" THEN shuffle(course_lists[before.rec_course]) ELSE {<<>>}) :
            LET after == analyze_after_random(before, course_lists, no_of_reco, shuffled, r)
            IN /\ analysis' = after.result
               /\ course_lists' = after.lists
               /\ rand' = IF before.exc = "" THEN r ELSE rand
               /\ first' = IF ~first.called /\ after.result.exc = "" THEN FirstOf(after.result) ELSE first
               /\ UNCHANGED <<resume_text, resume_data, score, no_of_reco>>
               /\ UNCHANGED session_vars

NextAnalyze == AnalyzeResume

SpecAnalyze == InitAnalyze /\ [][NextAnalyze]_vars

(***************************************************************************)
(* The Streamlit session. Every interaction with a widget runs the script  *)
(* again from its first line: the module's course lists are built anew     *)
(* (lines 39-61), main() draws the page picked in the sidebar, and a       *)
(* widget that a run does not draw loses its value.                        *)
(***************************************************************************)
activities == {"User", "Feedback", "About", "Admin"}

\* What the visitor may type, upload and pick.
Names == {"", "Ann"}
Mails == {"", "ann@example.org"}
Mobiles == {"", "555-0100"}
Uploads ==
    { [name |-> "designer.pdf", skills |-> <<"Figma", "Sketch">>,
       text |-> "Internship and Work Experience", no_of_pages |-> 1],
      [name |-> "scan.pdf", skills |-> <<>>, text |-> "", no_of_pages |-> 2] }
SliderChoices == {SliderMin, SliderDefault, SliderMax}
Usernames == {"admin", "root"}
Passwords == {"admin123", "letmein"}

\* Lines 448-457: the parsed resume, from pyresparser or the fallback.
parse_resume(pdf, available) ==
    IF available
    THEN [skills |-> [i \in 1..Len(pdf.skills) |-> PyStr(pdf.skills[i])], no_of_pages |-> pdf.no_of_pages]
    ELSE [skills |-> <<PyStr("Python"), PyStr("JavaScript")>>, no_of_pages |-> 1]

\* The row of lines 470-486, without the columns on the machine, the place,
\* the time, and without the strings of the score, the skills and the
\* courses.
Row(name, mail, mob, pdf, result) ==
    [act_name |-> name, act_mail |-> mail, act_mob |-> mob, pdf_name |-> pdf.name,
     predicted_field |-> result.reco_field, user_level |-> result.cand_level]

\* insert_user_data(client, **data): the table afterwards. Without a client
\* nothing is written; `ok` is whether the insert went through.
insert_user_data(table, c, row, ok) ==
    IF c = "None" THEN table
    ELSE IF ok THEN Append(table, row)
    ELSE table

\* The guard without the email.
may_analyze_name_only(name, mail, pdf) == pdf # NoFile /\ name # ""

\* Line 434.
may_analyze(name, mail, pdf) == pdf # NoFile /\ name # "" /\ mail # ""

\* user_page(client) with the fields holding name, mail, mob, pdf and the
\* slider n.
user_page(name, mail, mob, pdf, n) ==
    IF may_analyze(name, mail, pdf)
    THEN /\ Len(user_data) < MaxRecords
         /\ \E before \in {analyze_before_random(parse_resume(pdf, PYRESPRARSER_AVAILABLE), PyStr(pdf.text))} :
              \E r \in EndDraws, ok \in BOOLEAN :
                \E shuffled \in (IF before.exc = "" THEN shuffle(CourseLists[before.rec_course]) ELSE {<<>>}) :
                  LET after == analyze_after_random(before, CourseLists, n, shuffled, r)
                  IN /\ resume_data' = [skills |-> before.skills]
                     /\ resume_text' = before.text
                     /\ analysis' = after.result
                     /\ course_lists' = after.lists
                     /\ rand' = r
                     /\ no_of_reco' = n
                     /\ user_data' = IF after.result.exc = ""
                                     THEN insert_user_data(user_data, client, Row(name, mail, mob, pdf, after.result), ok)
                                     ELSE user_data
                     /\ view' = IF after.result.exc = "" THEN "analysis" ELSE "error"
    ELSE /\ analysis' = NoAnalysis
         /\ course_lists' = CourseLists
         /\ no_of_reco' = SliderDefault
         /\ view' = IF pdf # NoFile THEN "warning" ELSE "upload"
         /\ UNCHANGED <<resume_data, resume_text, rand, user_data>>

\* The flag after a press of Login with the form holding username and
\* password.
admin_login_any_password(logged_in, username, password) ==
    IF username = "admin" THEN TRUE ELSE logged_in

\* Lines 563-566: the flag after a press of Login with the form holding
\* username and password.
admin_login(logged_in, username, password) ==
    IF username = "admin" /\ password = "admin123" THEN TRUE ELSE logged_in

\* Line 612: the flag after a press of Logout.
admin_logout(logged_in) == FALSE

\* admin_page(client) with the flag as the run leaves it: the dashboard of
\* lines 572-613 when it is set, otherwise the login form of lines 557-570,
\* with the error of line 569 when the run was a refused login.
admin_page(logged_in, submit) ==
    /\ view' = IF logged_in THEN "dashboard"
               ELSE IF submit.login_btn THEN "invalid credentials"
               ELSE "login"
    /\ analysis' = NoAnalysis
    /\ course_lists' = CourseLists
    /\ no_of_reco' = SliderDefault
    /\ UNCHANGED <<resume_data, resume_text, rand, user_data>>

\* feedback_page and about_page: nothing of what is modelled changes (the
\* user_feedback table is not part of the model).
other_page(c) ==
    /\ view' = IF c = "Feedback" THEN "feedback" ELSE "about"
    /\ analysis' = NoAnalysis
    /\ course_lists' = CourseLists
    /\ no_of_reco' = SliderDefault
    /\ UNCHANGED <<resume_data, resume_text, rand, user_data>>

\* One run of the script, main(), with the widgets holding the given values.
main(c, name, mail, mob, pdf, n, logged_in, submit) ==
    /\ choice' = c
    /\ act_name' = name
    /\ act_mail' = mail
    /\ act_mob' = mob
    /\ pdf_file' = pdf
    /\ admin_logged_in' = logged_in
    /\ login_form' = submit
    /\ IF c = "User" THEN user_page(name, mail, mob, pdf, n)
       ELSE IF c = "Admin" THEN admin_page(logged_in, submit)
       ELSE other_page(c)
    /\ UNCHANGED <<score, first, PYRESPRARSER_AVAILABLE, client>>

Init ==
    /\ resume_text = PyStr("")
    /\ resume_data = [skills |-> <<>>]
    /\ rand = RandLow
    /\ score = NotCalled
    /\ course_lists = CourseLists
    /\ no_of_reco = SliderDefault
    /\ analysis = NoAnalysis
    /\ first = NoFirst
    /\ PYRESPRARSER_AVAILABLE \in BOOLEAN
    /\ client \in {"connected", "None"}
    /\ SessionStart

TypeName ==
    /\ choice = "User"
    /\ \E v \in Names \ {act_name} :
        main("User", v, act_mail, act_mob, pdf_file, no_of_reco, admin_logged_in, NoSubmit)

TypeEmail ==
    /\ choice = "User"
    /\ \E v \in Mails \ {act_mail} :
        main("User", act_name, v, act_mob, pdf_file, no_of_reco, admin_logged_in, NoSubmit)

TypeMobile ==
    /\ choice = "User"
    /\ \E v \in Mobiles \ {act_mob} :
        main("User", act_name, act_mail, v, pdf_file, no_of_reco, admin_logged_in, NoSubmit)

UploadPdf ==
    /\ choice = "User"
    /\ \E f \in Uploads \ {pdf_file} :
        main("User", act_name, act_mail, act_mob, f, no_of_reco, admin_logged_in, NoSubmit)

RemovePdf ==
    /\ choice = "User"
    /\ pdf_file # NoFile
    /\ main("User", act_name, act_mail, act_mob, NoFile, no_of_reco, admin_logged_in, NoSubmit)

\* The slider is on the page once course_recommender has drawn it.
MoveSlider ==
    /\ choice = "User"
    /\ view = "analysis"
    /\ \E n \in SliderChoices \ {no_of_reco} :
        main("User", act_name, act_mail, act_mob, pdf_file, n, admin_logged_in, NoSubmit)

\* The visitor asks for a rerun of the page as it is.
Rerun ==
    main(choice, act_name, act_mail, act_mob, pdf_file, no_of_reco, admin_logged_in, NoSubmit)

\* Another page is picked: the fields of the user page are not drawn.
SelectPage ==
    \E c \in activities \ {choice} :
        main(c, "", "", "", NoFile, SliderDefault, admin_logged_in, NoSubmit)

\* The login form is submitted (lines 563-569); a successful login ends in
\* st.rerun().
AdminLogin ==
    /\ choice = "Admin"
    /\ ~admin_logged_in
    /\ \E username \in Usernames, password \in Passwords :
        main("Admin", "", "", "", NoFile, SliderDefault,
             admin_login(admin_logged_in, username, password), Submit(username, password))

\* The Logout button of the dashboard (lines 611-613).
Logout ==
    /\ choice = "Admin"
    /\ view = "dashboard"
    /\ main("Admin", "", "", "", NoFile, SliderDefault, admin_logout(admin_logged_in), NoSubmit)

Next ==
    \/ TypeName
    \/ TypeEmail
    \/ TypeMobile
    \/ UploadPdf
    \/ RemovePdf
    \/ MoveSlider
    \/ Rerun
    \/ SelectPage
    \/ AdminLogin
    \/ Logout

Spec == Init /\ [][Next]_vars

(***************************************************************************)
(* Properties of the scorer, under SpecScore.                              *)
(***************************************************************************)
ScoreReturned == score.exc = ""

\* kw occurs in text in any letter case.
OccursAnyCase(text, kw) ==
    \E i \in 1..(Len(text) - Len(kw) + 1) :
        \A j \in 1..Len(kw) : lower_char(CharAt(text, i + j - 1)) = CharAt(kw, j)

\* The sections with a keyword in the uppercased text.
SectionsIn(text_upper) ==
    { i \in 1..Len(sections) :
        \E k \in 1..Len(sections[i].keywords) : Contains(text_upper, sections[i].keywords[k]) }

\* S: how many of the sections have a keyword in the uppercased text.
SectionCount(text) == Cardinality(SectionsIn(upper(text)))

SixSections ==
    /\ Len(sections) = 6
    /\ {sections[i].name : i \in 1..Len(sections)} =
         {"objective", "education", "experience", "skills", "projects", "certifications"}

LanguageFound(text) == \E kw \in {"python", "java", "react", "sql"} : OccursAnyCase(text, kw)

\* C2: the score returned is min(15*S + L + K + r, 100): S the number of the
\* six sections with a keyword in the uppercased text, L = 10 for a text
\* longer than 500 characters, K = 10 when python, java, react or sql occurs
\* in any letter case, r the draw; the example text scores 60 with r = 0 and
\* 75 with r = 15.
C2_ScoreFormula ==
    ScoreReturned =>
        \E text \in {resume_text.val} :
          \E S \in {SectionCount(text)} :
            \E L \in {IF Len(text) > 500 THEN 10 ELSE 0} :
              \E K \in {IF LanguageFound(text) THEN 10 ELSE 0} :
                /\ SixSections
                /\ 15 * S <= 90
                /\ rand \in 0..15
                /\ score.value = Min(15 * S + L + K + rand, 100)
                /\ (text = ExampleText /\ rand = 0) => score.value = 60
                /\ (text = ExampleText /\ rand = 15) => score.value = 75

C2_Witness ==
    /\ ScoreReturned
    /\ resume_text.val = ExampleText
    /\ rand = 15
    /\ score.value = 75

\* C3: whatever the text and the draw, a score that is returned is an integer
\* from 0 to 100.
C3_ScoreInRange == ScoreReturned => score.value \in 0..100

\* The draw takes the sum past 100 and the score returned is 100.
C3_Witness ==
    /\ ScoreReturned
    /\ score.value = 100
    /\ base_score(resume_text.val) + rand > 100

\* C8: for a text with a keyword of each of the six sections, longer than 500
\* characters and with a language keyword, the base is 110 and the score
\* returned is 100 whatever the draw.
C8_FullResumeScores100 ==
    (/\ ScoreReturned
     /\ SixSections
     /\ Len(resume_text.val) > 500
     /\ SectionCount(resume_text.val) = 6
     /\ LanguageFound(resume_text.val))
    => /\ base_score(resume_text.val) = 110
       /\ score.value = 100

C8_Witness ==
    /\ ScoreReturned
    /\ rand = 0
    /\ score.value = 100
    /\ Len(resume_text.val) > 500
    /\ SectionCount(resume_text.val) = 6
    /\ LanguageFound(resume_text.val)

(***************************************************************************)
(* Properties of analyze_resume, under SpecAnalyze.                        *)
(***************************************************************************)
AnalysisReturned == analysis.exc = ""
AnalysisCalled == analysis.exc # "not called"

AllStrings(skills) == \A i \in 1..Len(skills) : skills[i].type = "str"

\* The five keyword sets in their priority order, with their fields.
KeywordSets == <<
    [field |-> "Data Science",        keywords |-> {"tensorflow", "keras", "pytorch", "machine learning", "deep learning", "flask"}],
    [field |-> "Web Development",     keywords |-> {"react", "django", "node", "javascript", "php", "angular"}],
    [field |-> "Android Development", keywords |-> {"android", "kotlin", "flutter"}],
    [field |-> "iOS Development",     keywords |-> {"ios", "swift", "xcode"}],
    [field |-> "UI/UX Design",        keywords |-> {"figma", "adobe xd", "ux", "ui", "prototyping"}] >>

\* The sets with a keyword in the lower-cased skill.
SetsMatching(skill) ==
    { k \in 1..Len(KeywordSets) : \E kw \in KeywordSets[k].keywords : Contains(lower(skill), kw) }

\* The positions of the skills that match some set.
MatchingSkills(skills) == { i \in 1..Len(skills) : SetsMatching(skills[i].val) # {} }

Least(S) == CHOOSE x \in S : \A y \in S : x <= y

\* The field of the first matching skill's first matching set.
FirstMatchField(skills) ==
    KeywordSets[Least(SetsMatching(skills[Least(MatchingSkills(skills))].val))].field

\* C1: the classifier returns the field of the first skill, in list order,
\* that contains a keyword of any set, taking for that skill the first
\* matching set in the order DataScience, WebDev, Android, iOS, UIUX; the
\* skills after it have no influence.
C1_FirstSkillFirstSet ==
    (AnalysisCalled /\ analysis.text.type = "str" /\ AllStrings(analysis.skills)) =>
        /\ AnalysisReturned
        /\ MatchingSkills(analysis.skills) # {} =>
            /\ analysis.reco_field = FirstMatchField(analysis.skills)
            /\ analysis.reco_field =
                 FirstMatchField(SubSeq(analysis.skills, 1, Least(MatchingSkills(analysis.skills))))

\* A skill matching the iOS and the UIUX set, followed by a DataScience skill.
C1_Witness ==
    /\ AnalysisReturned
    /\ analysis.skills = <<PyStr("SwiftUI"), PyStr("TensorFlow")>>
    /\ analysis.reco_field = "iOS Development"

\* C4: the level is Intermediate if the uppercased text contains INTERNSHIP,
\* otherwise Experienced if it contains EXPERIENCE, otherwise Fresher; with
\* both it is Intermediate.
C4_LevelPriority ==
    (AnalysisCalled /\ analysis.text.type = "str" /\ AllStrings(analysis.skills)) =>
        \E up \in {upper(analysis.text.val)} :
            /\ AnalysisReturned
            /\ analysis.cand_level =
                 IF Contains(up, "INTERNSHIP") THEN "Intermediate"
                 ELSE IF Contains(up, "EXPERIENCE") THEN "Experienced"
                 ELSE "Fresher"
            /\ (Contains(up, "INTERNSHIP") /\ Contains(up, "EXPERIENCE"))
                 => analysis.cand_level = "Intermediate"

C4_Witness ==
    /\ AnalysisReturned
    /\ analysis.text = PyStr("Internship and Work Experience")
    /\ analysis.cand_level = "Intermediate"

\* C5: a skill list none of whose lower-cased skills contains a keyword, the
\* empty list included, gives the field General and no recommended skills.
C5_NoMatchIsGeneral ==
    (/\ AnalysisCalled
     /\ analysis.text.type = "str"
     /\ AllStrings(analysis.skills)
     /\ MatchingSkills(analysis.skills) = {})
    => /\ AnalysisReturned
       /\ analysis.reco_field = "General"
       /\ analysis.recommended_skills = <<>>

C5_Witness ==
    /\ AnalysisReturned
    /\ analysis.skills = <<PyStr("excel")>>
    /\ analysis.reco_field = "General"
    /\ analysis.recommended_skills = <<>>

\* The errors Python raises for an argument of the wrong value or type.
InvalidArgumentErrors == {"ValueError", "TypeError"}

Malformed(skills, text) == text.type # "str" \/ ~AllStrings(skills)

\* C6: a skill list with an entry that is no string, or a text that is None,
\* is rejected with an invalid-argument error, and neither an analysis result
\* nor a stored row comes of it.
C6_MalformedRejected ==
    (AnalysisCalled /\ Malformed(analysis.skills, analysis.text)) =>
        /\ analysis.exc \in InvalidArgumentErrors
        /\ analysis.reco_field = ""
        /\ analysis.cand_level = ""
        /\ analysis.resume_score = -1
        /\ user_data = <<>>

\* The highest-priority set the skill at position i matches.
FirstSetOf(skills, i) == Least(SetsMatching(skills[i].val))

\* C11: when the first skill that matches any set matches only sets of lower
\* priority than a set some later skill matches (a UIUX-only skill followed
\* by a DataScience skill), the field returned is the earlier skill's: that
\* of the highest-priority set among those the earlier skill matches, and
\* not the later skill's.
C11_PositionDominatesPriority ==
    (AnalysisCalled /\ analysis.text.type = "str" /\ AllStrings(analysis.skills)) =>
        \A i, j \in MatchingSkills(analysis.skills) :
            (/\ i < j
             /\ \A h \in MatchingSkills(analysis.skills) : i <= h
             /\ FirstSetOf(analysis.skills, j) < FirstSetOf(analysis.skills, i))
            => /\ AnalysisReturned
               /\ analysis.reco_field = KeywordSets[FirstSetOf(analysis.skills, i)].field
               /\ analysis.reco_field # KeywordSets[FirstSetOf(analysis.skills, j)].field
               /\ \A k \in SetsMatching(analysis.skills[i].val) :
                    FirstSetOf(analysis.skills, i) <= k

\* A UIUX-only skill followed by a DataScience skill.
C11_Witness ==
    /\ AnalysisReturned
    /\ analysis.skills = <<PyStr("Figma"), PyStr("TensorFlow")>>
    /\ SetsMatching("Figma") = {5}
    /\ 1 \in SetsMatching("TensorFlow")
    /\ analysis.reco_field = "UI/UX Design"

\* C9: a call with the skill list of the first call returns the first call's
\* field, whatever was analysed in between.
C9_SameListSameField ==
    (AnalysisReturned /\ first.called /\ analysis.skills = first.skills) =>
        analysis.reco_field = first.reco_field

\* The resume is analysed, then the other one (which leaves its course list
\* shuffled), then the resume again.
C9_Witness ==
    /\ AnalysisReturned
    /\ first.called
    /\ first.skills = <<PyStr("excel")>>
    /\ analysis.skills = first.skills
    /\ course_lists.IOS_COURSE # CourseLists.IOS_COURSE
    /\ analysis.reco_field = "General"

\* C10: after any calls of analyze_resume each course list holds the tuples
\* it held at start-up, in the same order, and the course list a call returns
\* is that start-up list.
C10_CourseListsUntouched ==
    /\ course_lists = CourseLists
    /\ AnalysisReturned => analysis.courses = CourseLists[analysis.rec_course]

Fields == {KeywordSets[k].field : k \in 1..Len(KeywordSets)} \cup {"General"}

\* What the classifier gives for the empty list and for each one-skill list.
OneSkillResults ==
    { classify([skills |-> l]) : l \in {<<>>} \cup {<<PyStr(x)>> : x \in SkillPool} }

\* C13: in every result the recommended skills and the course list are those
\* that go with the field: any other result with the same field has the same
\* recommended skills and the same course list, two different fields other
\* than General have different course lists, the recommended skills are
\* empty exactly when the field is General, the course list of General is the
\* Data Science list, and the list returned is the module's list of that
\* name.
C13_FieldDeterminesPlan ==
    AnalysisReturned =>
        /\ analysis.reco_field \in Fields
        /\ {o.reco_field : o \in OneSkillResults} = Fields
        /\ \A o \in OneSkillResults :
              /\ o.reco_field = analysis.reco_field =>
                    /\ o.recommended_skills = analysis.recommended_skills
                    /\ o.rec_course = analysis.rec_course
              /\ (/\ o.reco_field # analysis.reco_field
                  /\ o.reco_field # "General"
                  /\ analysis.reco_field # "General")
                  => /\ o.rec_course # analysis.rec_course
                     /\ o.recommended_skills # analysis.recommended_skills
        /\ (analysis.recommended_skills = <<>>) <=> (analysis.reco_field = "General")
        /\ analysis.reco_field = "General" => analysis.rec_course = "DS_COURSE"
        /\ analysis.reco_field = "Data Science" => analysis.rec_course = "DS_COURSE"
        /\ analysis.courses = course_lists[analysis.rec_course]
        /\ {analysis.courses[i] : i \in 1..Len(analysis.courses)} =
             {CourseLists[analysis.rec_course][i] : i \in 1..Len(CourseLists[analysis.rec_course])}

\* The empty skill list: General, no recommended skills, the Data Science
\* courses.
C13_Witness ==
    /\ AnalysisReturned
    /\ analysis.skills = <<>>
    /\ analysis.reco_field = "General"
    /\ analysis.recommended_skills = <<>>
    /\ analysis.rec_course = "DS_COURSE"
    /\ Len(analysis.courses) = Len(CourseLists.DS_COURSE)

(***************************************************************************)
(* Properties of the session, under Spec.                                  *)
(***************************************************************************)
\* C7: over any sequence of reruns of the page, at most one row is inserted
\* into user_data.
C7_AtMostOneRow == Len(user_data) <= 1

GoodLogin == Submit("admin", "admin123")

\* C12: the flag admin_logged_in starts false; the dashboard is on the page
\* only while the flag is true; the flag becomes true only in a run to which
\* the login form submitted username "admin" and password "admin123"; a run
\* to which the form submitted anything else leaves the flag as it was; and
\* Logout leaves it false, with the login form on the page.
C12_AdminFlag ==
    /\ admin_logged_in = FALSE
    /\ [](view = "dashboard" => (admin_logged_in /\ choice = "Admin"))
    /\ [][(~admin_logged_in /\ admin_logged_in') => login_form' = GoodLogin]_vars
    /\ [][(login_form'.login_btn /\ login_form' # GoodLogin) =>
            (admin_logged_in' = admin_logged_in /\ view' = "invalid credentials")]_vars
    /\ [][Logout => (~admin_logged_in' /\ view' = "login")]_vars

FormComplete == pdf_file # NoFile /\ act_name # "" /\ act_mail # ""

\* C14: on the user page an analysis is on the page, and a row is added to
\* user_data, only in a run with a PDF uploaded and the name and the email
\* both non-empty; with a PDF uploaded and the name or the email empty the
\* run analyses nothing, adds no row and shows the warning; and with a PDF,
\* a name and an email analyze_resume is called whatever the mobile field holds,
\* the row taking the name, the email and the mobile as typed.
C14_UserPageGuard ==
    /\ []((analysis # NoAnalysis \/ view = "analysis") => (choice = "User" /\ FormComplete))
    /\ []((choice = "User" /\ pdf_file # NoFile /\ (act_name = "" \/ act_mail = ""))
            => (view = "warning" /\ analysis = NoAnalysis))
    /\ []((choice = "User" /\ FormComplete) => (view \in {"analysis", "error"} /\ analysis # NoAnalysis))
    /\ [][((choice' = "User" /\ pdf_file' # NoFile /\ (act_name' = "" \/ act_mail' = ""))
             \/ choice' # "User" \/ pdf_file' = NoFile)
            => user_data' = user_data]_vars
    /\ [][user_data' # user_data =>
            /\ choice' = "User"
            /\ pdf_file' # NoFile /\ act_name' # "" /\ act_mail' # ""
            /\ Len(user_data') = Len(user_data) + 1
            /\ SubSeq(user_data', 1, Len(user_data)) = user_data
            /\ user_data'[Len(user_data')].act_name = act_name'
            /\ user_data'[Len(user_data')].act_mail = act_mail'
            /\ user_data'[Len(user_data')].act_mob = act_mob'
            /\ user_data'[Len(user_data')].pdf_name = pdf_file'.name]_vars

\* A resume analysed and its row stored with the mobile field left empty.
C14_Witness ==
    /\ choice = "User"
    /\ FormComplete
    /\ act_mob = ""
    /\ view = "analysis"
    /\ Len(user_data) = 1
    /\ user_data[1].act_mob = ""
    /\ user_data[1].act_name = act_name

\* The dashboard after a login with the right credentials.
C12_Witness ==
    /\ view = "dashboard"
    /\ admin_logged_in
    /\ login_form = GoodLogin

=============================================================================
